---- MODULE Spec2Model ----
(***************************************************************************)
(* Model of pkg/crypto (crypto.go): the algorithm registry, the dispatcher *)
(* TestAlgorithm and the four executors testAES256GCM,                     *)
(* testChaCha20Poly1305, testKyber and testHybridKyberAES, with the byte   *)
(* layout of the serialized ciphertexts and the three durations they       *)
(* measure; the default-algorithm settings kept in viper; and the tunnel   *)
(* operations Create, Start, Stop and Delete of pkg/tunnel.                *)
(*                                                                         *)
(* Byte strings are sequences of small naturals.  The primitives of the    *)
(* libraries (AEAD Seal/Open, KEM Encapsulate/Decapsulate) are modelled as *)
(* ideal primitives: Open accepts exactly the (key, nonce, ciphertext)     *)
(* triples that Seal produced, and Decapsulate returns the encapsulated    *)
(* secret exactly for the ciphertext Encapsulate produced for that key     *)
(* pair.  What Seal and Encapsulate produced is carried in the sets        *)
(* `sealed` and `encaps` of the invocation.                                *)
(*                                                                         *)
(* Specifications: Spec (calls of TestAlgorithm), SpecTamper (the          *)
(* decryption half on a damaged buffer), SpecSettings (every exported      *)
(* function of pkg/crypto on one settings store), SpecRegistry (the list   *)
(* functions and callers that edit what they were handed), SpecTunnel      *)
(* (the tunnel operations, each call as a whole) and SpecRace (two         *)
(* processes inside Create, one access to the host at a time).  Reads of   *)
(* the random source and of the clock succeed and removing an existing     *)
(* file succeeds; writing a tunnel configuration may fail.  What the code  *)
(* makes depend on the host (the effective user, an existing interface, a  *)
(* configuration file in use) is part of the state or an input.            *)
(***************************************************************************)
EXTENDS Integers, Sequences, FiniteSets, TLC

\* ------------------------------------------------------------------ bounds
\* byte values are 0 .. ByteMod-1 (stands for 256)
ByteMod == 2
\* plaintexts have length 0 .. MaxDataLen
MaxDataLen == 2
\* number of distinct outcomes of one read of rand.Reader
NumRandom == 2
\* number of distinct key pairs GenerateKeyPair can return
NumKeyPairs == 1
\* scheme.CiphertextSize() of the two Kyber parameter sets (1088 and 1568
\* in the library), scaled
Kyber768CiphertextSize == 3
Kyber1024CiphertextSize == 4
\* the clock advances 0 .. MaxTick ticks while one step of a call runs
MaxTick == 1

\* ------------------------------------------------------- scheme constants
\* aead.NonceSize() of AES-GCM and of ChaCha20-Poly1305
NonceSize == 12
\* the GCM / Poly1305 authentication tag
TagSize == 16
\* AES-256 and ChaCha20 key size
KeySize == 32
\* scheme.SharedKeySize() of Kyber
SharedKeySize == 32

Byte == 0 .. (ByteMod - 1)

NoError == "nil"
ErrUnsupported == "unsupported algorithm"
ErrTooShort == "ciphertext too short"
ErrRemainingTooShort == "remaining ciphertext too short"
ErrTooShortForKey == "remaining ciphertext too short for AES key"
ErrTooShortForNonce == "remaining ciphertext too short for data nonce"
ErrKeySize == "invalid key size"

FramingErrors == {ErrTooShort, ErrRemainingTooShort, ErrTooShortForKey, ErrTooShortForNonce}

\* ------------------------------------------------------------ Go slices
\* b[:n]
Take(b, n) == SubSeq(b, 1, n)
\* b[n:]
Drop(b, n) == SubSeq(b, n + 1, Len(b))

\* ------------------------------------------------------------- registry
ClassicNames == <<"aes256gcm", "chacha20poly1305">>

\* variant: the list names a parameter set the dispatcher has no case for
PostQuantumNamesWithKyber512 ==
    <<"kyber512", "kyber768", "kyber1024", "hybrid-kyber768-aes256gcm">>

PostQuantumNames == <<"kyber768", "kyber1024", "hybrid-kyber768-aes256gcm">>

ListClassicAlgorithms ==
    [i \in 1 .. Len(ClassicNames) |-> [Name |-> ClassicNames[i], PostQuantum |-> FALSE]]

ListPostQuantumAlgorithms ==
    [i \in 1 .. Len(PostQuantumNames) |-> [Name |-> PostQuantumNames[i], PostQuantum |-> TRUE]]

RegisteredNames ==
    {ListClassicAlgorithms[i].Name : i \in 1 .. Len(ListClassicAlgorithms)}
        \cup {ListPostQuantumAlgorithms[i].Name : i \in 1 .. Len(ListPostQuantumAlgorithms)}

\* names a caller may pass that the registry does not know
OtherNames == {"unsupported-algorithm", "", "AES256GCM"}

AlgorithmNames == RegisteredNames \cup OtherNames

\* --------------------------------------------------------- random source
\* the outcomes of io.ReadFull(rand.Reader, b) for a buffer of n bytes
RandomBytes(n) ==
    {[i \in 1 .. n |-> IF i <= r THEN 1 ELSE 0] : r \in 0 .. (NumRandom - 1)}

\* the plaintexts
DataSet == UNION {[1 .. n -> Byte] : n \in 0 .. MaxDataLen}

\* ------------------------------------------------------------------ AEAD
\* aes.NewCipher: the key must be 16, 24 or 32 bytes
aesNewCipher(key) == IF Len(key) \in {16, 24, 32} THEN NoError ELSE ErrKeySize

\* chacha20poly1305.New: the key must be 32 bytes
chachaNew(key) == IF Len(key) = KeySize THEN NoError ELSE ErrKeySize

KeyStream(key, nonce, i) == (key[1] + key[Len(key)] + nonce[1] + i) % ByteMod

AuthTag(key, nonce, plaintext) ==
    [j \in 1 .. TagSize |-> (key[1] + nonce[Len(nonce)] + Len(plaintext) + j) % ByteMod]

\* aead.Seal(dst, nonce, plaintext, nil): dst followed by the encrypted
\* plaintext and the tag
Seal(dst, key, nonce, plaintext) ==
    dst \o [i \in 1 .. Len(plaintext) |-> (plaintext[i] + KeyStream(key, nonce, i)) % ByteMod]
        \o AuthTag(key, nonce, plaintext)

\* what a Seal call adds to the set of authentic ciphertexts
Sealing(key, nonce, plaintext) ==
    [key |-> key, nonce |-> nonce, ct |-> Seal(<<>>, key, nonce, plaintext)]

\* aead.Open(nil, nonce, ciphertext, nil) under key: authentication succeeds
\* only for what was sealed under the same key and nonce
Open(sealed, key, nonce, ciphertext) ==
    IF Len(ciphertext) >= TagSize
          /\ [key |-> key, nonce |-> nonce, ct |-> ciphertext] \in sealed
    THEN [ok |-> TRUE,
          plaintext |-> [i \in 1 .. (Len(ciphertext) - TagSize) |->
                            (ciphertext[i] + ByteMod - KeyStream(key, nonce, i)) % ByteMod]]
    ELSE [ok |-> FALSE, plaintext |-> <<>>]

\* ------------------------------------------------------------------- KEM
KemSchemes == {"kyber768", "kyber1024"}

CiphertextSize(scheme) ==
    IF scheme = "kyber768" THEN Kyber768CiphertextSize ELSE Kyber1024CiphertextSize

\* scheme.GenerateKeyPair(): the key pairs are numbered
KeyPairs == 1 .. NumKeyPairs

\* scheme.Encapsulate(public) with encapsulation randomness e
Encapsulate(scheme, public, e) ==
    [ciphertext |-> [i \in 1 .. CiphertextSize(scheme) |-> IF i <= e THEN 1 ELSE 0],
     sharedSecret |-> [i \in 1 .. SharedKeySize |-> IF i <= e THEN 1 ELSE 0]]

EncapsRandom == 0 .. (NumRandom - 1)

\* the secret Decapsulate derives from a ciphertext that is not an
\* encapsulation for the key pair (implicit rejection): unrelated to any
\* secret in use
RejectionSecret == [i \in 1 .. SharedKeySize |-> ByteMod]

\* scheme.Decapsulate(private, ct).  encaps is what Encapsulate produced;
\* explicit tells whether the scheme rejects a foreign ciphertext with an
\* error or with an unrelated secret.
Decapsulate(scheme, encaps, private, ct, explicit) ==
    IF Len(ct) # CiphertextSize(scheme)
    THEN [ok |-> FALSE, secret |-> <<>>]
    ELSE IF \E x \in encaps : x.public = private /\ x.ciphertext = ct
         THEN [ok |-> TRUE,
               secret |-> (CHOOSE x \in encaps : x.public = private /\ x.ciphertext = ct).sharedSecret]
         ELSE IF explicit
              THEN [ok |-> FALSE, secret |-> <<>>]
              ELSE [ok |-> TRUE, secret |-> RejectionSecret]

\* --------------------------------------------------------------- results
\* a *TestResult is <<>> (nil) or <<r>>
NilResult == <<>>

NewTestResult(algorithm) ==
    [Algorithm |-> algorithm, Encrypted |-> <<>>, DecryptionSuccessful |-> FALSE,
     KeyGenTime |-> 0, EncryptTime |-> 0, DecryptTime |-> 0]

\* ----------------------------------------------------------------- clock
\* The steps of each executor in program order.  A timestamp is the number
\* of steps of the call that have completed when time.Now() is read, and
\* the clock advances by `tick` ticks per step (0: the clock is too coarse
\* to see the call).
StepsAES256GCM ==
    <<"ReadKey", "NewCipher", "NewGCM", "ReadNonce", "Seal", "Slice", "Open">>

StepsChaCha20Poly1305 ==
    <<"ReadKey", "New", "ReadNonce", "Seal", "Slice", "Open">>

StepsKyber ==
    <<"GenerateKeyPair", "Encapsulate", "NewCipher", "NewGCM", "ReadNonce", "Seal",
      "Serialize", "Slice", "Decapsulate", "NewCipherDecrypt", "Open">>

StepsHybridKyberAES ==
    <<"GenerateKeyPair", "ReadAesKey", "Encapsulate", "CombineKey", "NewCipher",
      "ReadNonce", "Seal", "NewCipherKey", "ReadKeyNonce", "SealKey", "Serialize",
      "Slice", "Decapsulate", "NewCipherUnwrap", "OpenKey", "CombineKeyDecrypt",
      "NewCipherDecrypt", "Open">>

ClockTicks == 0 .. MaxTick

\* the position of step s in the program
At(steps, s) == CHOOSE i \in DOMAIN steps : steps[i] = s

\* start := time.Now() just before step first, time.Since(start) just
\* after step last
Span(steps, first, last) == <<At(steps, first) - 1, At(steps, last)>>

\* time.Now() after p steps of the call
Now(tick, p) == tick * p

\* variant: the start is subtracted the wrong way round
SinceBackwards(tick, span) == Now(tick, span[1]) - Now(tick, span[2])

\* time.Since(start): the clock now minus the clock at the start
Since(tick, span) == Now(tick, span[2]) - Now(tick, span[1])

Return(result, err, locals) == [result |-> result, err |-> err, locals |-> locals]

\* variant: the result built so far is returned next to the error
AbortPartial(result, err, locals) == Return(<<result>>, err, locals)

\* return nil, errors.New(err): a failed length check hands out no result
Abort(result, err, locals) == Return(NilResult, err, locals)

\* variant: the nonce is written before the KEM ciphertext
KyberSerializeNonceFirst(ciphertext, nonce, encryptedData) ==
    nonce \o (ciphertext \o encryptedData)

\* variant: the nonce is not written
KyberSerializeNoNonce(ciphertext, nonce, encryptedData) ==
    ciphertext \o encryptedData

\* append(ciphertext, append(nonce, encryptedData...)...)
KyberSerialize(ciphertext, nonce, encryptedData) ==
    ciphertext \o (nonce \o encryptedData)

\* variant: the wrapped key and its nonce are not written
HybridSerializeNoKey(ciphertext, aesKeyNonce, encryptedAesKey, nonce, encryptedData) ==
    ciphertext \o (nonce \o encryptedData)

\* append(ciphertext, append(aesKeyNonce, append(encryptedAesKey,
\*        append(nonce, encryptedData...)...)...)...)
HybridSerialize(ciphertext, aesKeyNonce, encryptedAesKey, nonce, encryptedData) ==
    ciphertext \o (aesKeyNonce \o (encryptedAesKey \o (nonce \o encryptedData)))

\* variant: the AES key first
HybridKeySwapped(sharedSecret, aesKey) == aesKey \o sharedSecret

\* hybridKey: the shared secret followed by the AES key
HybridKey(sharedSecret, aesKey) == sharedSecret \o aesKey

\* variant: the unwrapped key first
HybridKeyDecryptSwapped(decapsulatedSecret, decryptedAesKey) ==
    decryptedAesKey \o decapsulatedSecret

\* hybridKeyDecrypt: the decapsulated secret followed by the unwrapped key
HybridKeyDecrypt(decapsulatedSecret, decryptedAesKey) ==
    decapsulatedSecret \o decryptedAesKey

\* variant: the tag of the wrapped key is forgotten
encryptedAesKeySizeNoTag == KeySize

\* the size of the wrapped AES key: AES-256 key + GCM tag
encryptedAesKeySize == 32 + 16

\* locals of the encryption half of an executor
NoEnc ==
    [key |-> <<>>, nonce |-> <<>>, private |-> 0, ciphertext |-> <<>>,
     sharedSecret |-> <<>>, aesKey |-> <<>>, hybridKey |-> <<>>,
     aesKeyNonce |-> <<>>, encryptedAesKey |-> <<>>, encryptedData |-> <<>>,
     sealed |-> {}, encaps |-> {},
     tick |-> 0, keyGen |-> <<>>, encrypt |-> <<>>]

\* locals of the decryption half of an executor; cause names the branch
\* that ended it
NoDec ==
    [cause |-> "none", kyberCiphertext |-> <<>>, decapsulatedSecret |-> <<>>,
     aesKeyNonceDecrypt |-> <<>>, encryptedAesKeyDecrypt |-> <<>>,
     decryptedAesKey |-> <<>>, hybridKeyDecrypt |-> <<>>,
     nonceDecrypt |-> <<>>, ciphertextDecrypt |-> <<>>, plaintext |-> <<>>,
     decrypt |-> <<>>]

\* variant: an authentication failure is returned as an error
FinishHard(result, data, o, locals) ==
    IF ~o.ok
    THEN Return(NilResult, "cipher: message authentication failed",
                [locals EXCEPT !.cause = "open"])
    ELSE Return(<<[result EXCEPT !.DecryptionSuccessful = (o.plaintext = data)]>>, NoError,
                [locals EXCEPT !.plaintext = o.plaintext,
                               !.cause = IF o.plaintext = data THEN "none" ELSE "mismatch"])

\* the last lines of every executor: Open's outcome decides the result
Finish(result, data, o, locals) ==
    IF ~o.ok
    THEN Return(<<[result EXCEPT !.DecryptionSuccessful = FALSE]>>, NoError,
                [locals EXCEPT !.cause = "open"])
    ELSE Return(<<[result EXCEPT !.DecryptionSuccessful = (o.plaintext = data)]>>, NoError,
                [locals EXCEPT !.plaintext = o.plaintext,
                               !.cause = IF o.plaintext = data THEN "none" ELSE "mismatch"])

\* ------------------------------------------------------ testAES256GCM
\* key generation and encryption (key and nonce are the random reads)
testAES256GCMEncrypt(data, result, key, nonce, tick) ==
    IF aesNewCipher(key) # NoError
    THEN Return(NilResult, aesNewCipher(key), NoEnc)
    ELSE LET ciphertext == Seal(nonce, key, nonce, data)
             keyGen == Span(StepsAES256GCM, "ReadKey", "ReadKey")
             encrypt == Span(StepsAES256GCM, "Seal", "Seal")
         IN  Return(<<[result EXCEPT !.KeyGenTime = Since(tick, keyGen),
                                     !.EncryptTime = Since(tick, encrypt),
                                     !.Encrypted = ciphertext]>>, NoError,
                    [NoEnc EXCEPT !.key = key, !.nonce = nonce,
                                  !.tick = tick, !.keyGen = keyGen, !.encrypt = encrypt,
                                  !.encryptedData = Drop(ciphertext, Len(nonce)),
                                  !.sealed = {Sealing(key, nonce, data)}])

\* variant: Open is given the nonce variable of the encryption half, not
\* the nonce sliced off the buffer
testAES256GCMDecryptOwnNonce(data, result, enc) ==
    LET ciphertext == result.Encrypted
        nonceSize == NonceSize
    IN  IF Len(ciphertext) < nonceSize
        THEN Abort(result, ErrTooShort, [NoDec EXCEPT !.cause = "short"])
        ELSE LET nonceDecrypt == Take(ciphertext, nonceSize)
                 ciphertextDecrypt == Drop(ciphertext, nonceSize)
                 decrypt == Span(StepsAES256GCM, "Slice", "Open")
             IN  Finish([result EXCEPT !.DecryptTime = Since(enc.tick, decrypt)], data,
                        Open(enc.sealed, enc.key, enc.nonce, ciphertextDecrypt),
                        [NoDec EXCEPT !.nonceDecrypt = nonceDecrypt,
                                      !.ciphertextDecrypt = ciphertextDecrypt,
                                      !.decrypt = decrypt])

\* the decryption self-test on the buffer held in result.Encrypted
testAES256GCMDecrypt(data, result, enc) ==
    LET ciphertext == result.Encrypted
        nonceSize == NonceSize
    IN  IF Len(ciphertext) < nonceSize
        THEN Abort(result, ErrTooShort, [NoDec EXCEPT !.cause = "short"])
        ELSE LET nonceDecrypt == Take(ciphertext, nonceSize)
                 ciphertextDecrypt == Drop(ciphertext, nonceSize)
                 decrypt == Span(StepsAES256GCM, "Slice", "Open")
             IN  Finish([result EXCEPT !.DecryptTime = Since(enc.tick, decrypt)], data,
                        Open(enc.sealed, enc.key, nonceDecrypt, ciphertextDecrypt),
                        [NoDec EXCEPT !.nonceDecrypt = nonceDecrypt,
                                      !.ciphertextDecrypt = ciphertextDecrypt,
                                      !.decrypt = decrypt])

\* ------------------------------------------------- testChaCha20Poly1305
testChaCha20Poly1305Encrypt(data, result, key, nonce, tick) ==
    IF chachaNew(key) # NoError
    THEN Return(NilResult, chachaNew(key), NoEnc)
    ELSE LET ciphertext == Seal(nonce, key, nonce, data)
             keyGen == Span(StepsChaCha20Poly1305, "ReadKey", "ReadKey")
             encrypt == Span(StepsChaCha20Poly1305, "Seal", "Seal")
         IN  Return(<<[result EXCEPT !.KeyGenTime = Since(tick, keyGen),
                                     !.EncryptTime = Since(tick, encrypt),
                                     !.Encrypted = ciphertext]>>, NoError,
                    [NoEnc EXCEPT !.key = key, !.nonce = nonce,
                                  !.tick = tick, !.keyGen = keyGen, !.encrypt = encrypt,
                                  !.encryptedData = Drop(ciphertext, Len(nonce)),
                                  !.sealed = {Sealing(key, nonce, data)}])

testChaCha20Poly1305Decrypt(data, result, enc) ==
    LET ciphertext == result.Encrypted
        nonceSize == NonceSize
    IN  IF Len(ciphertext) < nonceSize
        THEN Abort(result, ErrTooShort, [NoDec EXCEPT !.cause = "short"])
        ELSE LET nonceDecrypt == Take(ciphertext, nonceSize)
                 ciphertextDecrypt == Drop(ciphertext, nonceSize)
                 decrypt == Span(StepsChaCha20Poly1305, "Slice", "Open")
             IN  Finish([result EXCEPT !.DecryptTime = Since(enc.tick, decrypt)], data,
                        Open(enc.sealed, enc.key, nonceDecrypt, ciphertextDecrypt),
                        [NoDec EXCEPT !.nonceDecrypt = nonceDecrypt,
                                      !.ciphertextDecrypt = ciphertextDecrypt,
                                      !.decrypt = decrypt])

\* ------------------------------------------------------------ testKyber
\* kp is the generated key pair, e the encapsulation randomness, nonce the
\* random nonce
testKyberEncrypt(scheme, data, result, kp, e, nonce, tick) ==
    LET public == kp
        private == kp
        encap == Encapsulate(scheme, public, e)
        ciphertext == encap.ciphertext
        sharedSecret == encap.sharedSecret
    IN  IF aesNewCipher(sharedSecret) # NoError
        THEN Return(NilResult, aesNewCipher(sharedSecret), NoEnc)
        ELSE LET encryptedData == Seal(<<>>, sharedSecret, nonce, data)
                 keyGen == Span(StepsKyber, "GenerateKeyPair", "GenerateKeyPair")
                 encrypt == Span(StepsKyber, "Encapsulate", "Encapsulate")
             IN  Return(<<[result EXCEPT !.KeyGenTime = Since(tick, keyGen),
                                         !.EncryptTime = Since(tick, encrypt),
                                         !.Encrypted = KyberSerialize(ciphertext, nonce, encryptedData)]>>,
                        NoError,
                        [NoEnc EXCEPT !.key = sharedSecret, !.nonce = nonce,
                                      !.tick = tick, !.keyGen = keyGen, !.encrypt = encrypt,
                                      !.private = private, !.ciphertext = ciphertext,
                                      !.sharedSecret = sharedSecret,
                                      !.encryptedData = encryptedData,
                                      !.sealed = {Sealing(sharedSecret, nonce, data)},
                                      !.encaps = {[public |-> public, ciphertext |-> ciphertext,
                                                   sharedSecret |-> sharedSecret]}])

testKyberDecrypt(scheme, data, result, enc, explicit) ==
    LET kyberCiphertextSize == CiphertextSize(scheme)
    IN  IF Len(result.Encrypted) < kyberCiphertextSize
        THEN Abort(result, ErrTooShort, [NoDec EXCEPT !.cause = "short"])
        ELSE
        LET kyberCiphertext == Take(result.Encrypted, kyberCiphertextSize)
            remaining == Drop(result.Encrypted, kyberCiphertextSize)
            decap == Decapsulate(scheme, enc.encaps, enc.private, kyberCiphertext, explicit)
            decapsulatedSecret == decap.secret
            l1 == [NoDec EXCEPT !.kyberCiphertext = kyberCiphertext,
                                !.decapsulatedSecret = decapsulatedSecret]
        IN  IF ~decap.ok
            THEN Return(<<[result EXCEPT !.DecryptionSuccessful = FALSE]>>, NoError,
                        [l1 EXCEPT !.cause = "decapsulate"])
            ELSE IF aesNewCipher(decapsulatedSecret) # NoError
            THEN Return(NilResult, aesNewCipher(decapsulatedSecret), [l1 EXCEPT !.cause = "cipher"])
            ELSE
            LET nonceSize == NonceSize
            IN  IF Len(remaining) < nonceSize
                THEN Abort(result, ErrRemainingTooShort, [l1 EXCEPT !.cause = "short"])
                ELSE LET nonceDecrypt == Take(remaining, nonceSize)
                         ciphertextDecrypt == Drop(remaining, nonceSize)
                         decrypt == Span(StepsKyber, "Slice", "Open")
                     IN  Finish([result EXCEPT !.DecryptTime = Since(enc.tick, decrypt)], data,
                                Open(enc.sealed, decapsulatedSecret, nonceDecrypt, ciphertextDecrypt),
                                [l1 EXCEPT !.nonceDecrypt = nonceDecrypt,
                                           !.ciphertextDecrypt = ciphertextDecrypt,
                                           !.decrypt = decrypt])

\* --------------------------------------------------- testHybridKyberAES
\* kp is the generated key pair, aesKey the random AES key, e the
\* encapsulation randomness, nonce and aesKeyNonce the two random nonces
testHybridKyberAESEncrypt(scheme, data, result, kp, aesKey, e, nonce, aesKeyNonce, tick) ==
    LET public == kp
        private == kp
        encap == Encapsulate(scheme, public, e)
        ciphertext == encap.ciphertext
        sharedSecret == encap.sharedSecret
        hybridKey == HybridKey(sharedSecret, aesKey)
    IN  IF aesNewCipher(Take(hybridKey, 32)) # NoError
        THEN Return(NilResult, aesNewCipher(Take(hybridKey, 32)), NoEnc)
        ELSE IF aesNewCipher(sharedSecret) # NoError
        THEN Return(NilResult, aesNewCipher(sharedSecret), NoEnc)
        ELSE
        LET encryptedData == Seal(<<>>, Take(hybridKey, 32), nonce, data)
            encryptedAesKey == Seal(<<>>, sharedSecret, aesKeyNonce, aesKey)
            keyGen == Span(StepsHybridKyberAES, "GenerateKeyPair", "ReadAesKey")
            encrypt == Span(StepsHybridKyberAES, "Encapsulate", "Seal")
        IN  Return(<<[result EXCEPT !.KeyGenTime = Since(tick, keyGen),
                                    !.EncryptTime = Since(tick, encrypt),
                                    !.Encrypted =
                        HybridSerialize(ciphertext, aesKeyNonce, encryptedAesKey, nonce,
                                        encryptedData)]>>,
                   NoError,
                   [NoEnc EXCEPT !.key = Take(hybridKey, 32), !.nonce = nonce,
                                 !.tick = tick, !.keyGen = keyGen, !.encrypt = encrypt,
                                 !.private = private, !.ciphertext = ciphertext,
                                 !.sharedSecret = sharedSecret, !.aesKey = aesKey,
                                 !.hybridKey = hybridKey, !.aesKeyNonce = aesKeyNonce,
                                 !.encryptedAesKey = encryptedAesKey,
                                 !.encryptedData = encryptedData,
                                 !.sealed = {Sealing(Take(hybridKey, 32), nonce, data),
                                             Sealing(sharedSecret, aesKeyNonce, aesKey)},
                                 !.encaps = {[public |-> public, ciphertext |-> ciphertext,
                                              sharedSecret |-> sharedSecret]}])

\* the last step of the hybrid decryption: the payload under the
\* recombined key
HybridOpenData(data, result, enc, remaining, hybridKeyDecrypt, l2) ==
    IF aesNewCipher(Take(hybridKeyDecrypt, 32)) # NoError
    THEN Return(NilResult, aesNewCipher(Take(hybridKeyDecrypt, 32)), [l2 EXCEPT !.cause = "cipher"])
    ELSE
    LET nonceSize == NonceSize
    IN  IF Len(remaining) < nonceSize
        THEN Abort(result, ErrTooShortForNonce, [l2 EXCEPT !.cause = "short"])
        ELSE LET nonceDecrypt == Take(remaining, nonceSize)
                 ciphertextDecrypt == Drop(remaining, nonceSize)
                 decrypt == Span(StepsHybridKyberAES, "Slice", "Open")
             IN  Finish([result EXCEPT !.DecryptTime = Since(enc.tick, decrypt)], data,
                        Open(enc.sealed, Take(hybridKeyDecrypt, 32), nonceDecrypt, ciphertextDecrypt),
                        [l2 EXCEPT !.nonceDecrypt = nonceDecrypt,
                                   !.ciphertextDecrypt = ciphertextDecrypt,
                                   !.decrypt = decrypt])

\* the middle step: the wrapped AES key under the decapsulated secret
HybridUnwrapKey(data, result, enc, remaining0, decapsulatedSecret, l1) ==
    LET aesKeyNonceSize == NonceSize
    IN  IF Len(remaining0) < aesKeyNonceSize
        THEN Abort(result, ErrRemainingTooShort, [l1 EXCEPT !.cause = "short"])
        ELSE
        LET aesKeyNonceDecrypt == Take(remaining0, aesKeyNonceSize)
            remaining1 == Drop(remaining0, aesKeyNonceSize)
        IN  IF Len(remaining1) < encryptedAesKeySize
            THEN Abort(result, ErrTooShortForKey, [l1 EXCEPT !.cause = "short"])
            ELSE
            LET encryptedAesKeyDecrypt == Take(remaining1, encryptedAesKeySize)
                remaining2 == Drop(remaining1, encryptedAesKeySize)
                o == Open(enc.sealed, decapsulatedSecret, aesKeyNonceDecrypt, encryptedAesKeyDecrypt)
                decryptedAesKey == o.plaintext
                l2 == [l1 EXCEPT !.aesKeyNonceDecrypt = aesKeyNonceDecrypt,
                                 !.encryptedAesKeyDecrypt = encryptedAesKeyDecrypt,
                                 !.decryptedAesKey = decryptedAesKey,
                                 !.hybridKeyDecrypt = HybridKeyDecrypt(decapsulatedSecret, decryptedAesKey)]
            IN  IF ~o.ok
                THEN Return(<<[result EXCEPT !.DecryptionSuccessful = FALSE]>>, NoError,
                            [l2 EXCEPT !.cause = "unwrap"])
                ELSE HybridOpenData(data, result, enc, remaining2,
                                    HybridKeyDecrypt(decapsulatedSecret, decryptedAesKey), l2)

testHybridKyberAESDecrypt(scheme, data, result, enc, explicit) ==
    LET kyberCiphertextSize == CiphertextSize(scheme)
    IN  IF Len(result.Encrypted) < kyberCiphertextSize
        THEN Abort(result, ErrTooShort, [NoDec EXCEPT !.cause = "short"])
        ELSE
        LET kyberCiphertext == Take(result.Encrypted, kyberCiphertextSize)
            remaining == Drop(result.Encrypted, kyberCiphertextSize)
            decap == Decapsulate(scheme, enc.encaps, enc.private, kyberCiphertext, explicit)
            decapsulatedSecret == decap.secret
            l1 == [NoDec EXCEPT !.kyberCiphertext = kyberCiphertext,
                                !.decapsulatedSecret = decapsulatedSecret]
        IN  IF ~decap.ok
            THEN Return(<<[result EXCEPT !.DecryptionSuccessful = FALSE]>>, NoError,
                        [l1 EXCEPT !.cause = "decapsulate"])
            ELSE IF aesNewCipher(decapsulatedSecret) # NoError
            THEN Return(NilResult, aesNewCipher(decapsulatedSecret), [l1 EXCEPT !.cause = "cipher"])
            ELSE HybridUnwrapKey(data, result, enc, remaining, decapsulatedSecret, l1)

\* ----------------------------------------------------------- dispatcher
\* variant: the default branch falls back to AES-256-GCM
ExecutorDefaultAES(name) ==
    CASE name = "aes256gcm" -> "testAES256GCM"
      [] name = "chacha20poly1305" -> "testChaCha20Poly1305"
      [] name = "kyber768" -> "testKyber768"
      [] name = "kyber1024" -> "testKyber1024"
      [] name = "hybrid-kyber768-aes256gcm" -> "testHybridKyberAES"
      [] OTHER -> "testAES256GCM"

\* the switch of TestAlgorithm: the executor a name selects
Executor(name) ==
    CASE name = "aes256gcm" -> "testAES256GCM"
      [] name = "chacha20poly1305" -> "testChaCha20Poly1305"
      [] name = "kyber768" -> "testKyber768"
      [] name = "kyber1024" -> "testKyber1024"
      [] name = "hybrid-kyber768-aes256gcm" -> "testHybridKyberAES"
      [] OTHER -> "unsupported"

\* one outcome of a read of the random source that is not made
NotDrawn(n) == {[i \in 1 .. n |-> 0]}

\* the random reads, library choices and clock of one invocation: which of
\* them the executor makes
Randomness(executor) ==
    CASE executor \in {"testAES256GCM", "testChaCha20Poly1305"} ->
            [key : RandomBytes(KeySize), nonce : RandomBytes(NonceSize),
             kp : {1}, e : {0}, aesKey : NotDrawn(32), aesKeyNonce : NotDrawn(NonceSize),
             tick : ClockTicks]
      [] executor \in {"testKyber768", "testKyber1024"} ->
            [key : NotDrawn(KeySize), nonce : RandomBytes(NonceSize),
             kp : KeyPairs, e : EncapsRandom, aesKey : NotDrawn(32),
             aesKeyNonce : NotDrawn(NonceSize), tick : ClockTicks]
      [] executor = "testHybridKyberAES" ->
            [key : NotDrawn(KeySize), nonce : RandomBytes(NonceSize),
             kp : KeyPairs, e : EncapsRandom, aesKey : RandomBytes(32),
             aesKeyNonce : RandomBytes(NonceSize), tick : ClockTicks]
      [] OTHER ->
            [key : NotDrawn(KeySize), nonce : NotDrawn(NonceSize),
             kp : {1}, e : {0}, aesKey : NotDrawn(32), aesKeyNonce : NotDrawn(NonceSize),
             tick : {0}]

\* the encryption half of the selected executor
EncryptHalf(executor, d, res, rnd) ==
    CASE executor = "testAES256GCM" -> testAES256GCMEncrypt(d, res, rnd.key, rnd.nonce, rnd.tick)
      [] executor = "testChaCha20Poly1305" ->
            testChaCha20Poly1305Encrypt(d, res, rnd.key, rnd.nonce, rnd.tick)
      [] executor = "testKyber768" ->
            testKyberEncrypt("kyber768", d, res, rnd.kp, rnd.e, rnd.nonce, rnd.tick)
      [] executor = "testKyber1024" ->
            testKyberEncrypt("kyber1024", d, res, rnd.kp, rnd.e, rnd.nonce, rnd.tick)
      [] executor = "testHybridKyberAES" ->
            testHybridKyberAESEncrypt("kyber768", d, res, rnd.kp, rnd.aesKey, rnd.e,
                                      rnd.nonce, rnd.aesKeyNonce, rnd.tick)

\* the decryption half of the selected executor
DecryptHalf(executor, d, res, e, explicit) ==
    CASE executor = "testAES256GCM" -> testAES256GCMDecrypt(d, res, e)
      [] executor = "testChaCha20Poly1305" -> testChaCha20Poly1305Decrypt(d, res, e)
      [] executor = "testKyber768" -> testKyberDecrypt("kyber768", d, res, e, explicit)
      [] executor = "testKyber1024" -> testKyberDecrypt("kyber1024", d, res, e, explicit)
      [] executor = "testHybridKyberAES" ->
            testHybridKyberAESDecrypt("kyber768", d, res, e, explicit)

\* TestAlgorithm(name, d): the switch, then the executor run to its return
RunTestAlgorithm(name, d, rnd) ==
    IF Executor(name) = "unsupported"
    THEN [result |-> NilResult, err |-> ErrUnsupported, enc |-> NoEnc, dec |-> NoDec]
    ELSE
    LET e == EncryptHalf(Executor(name), d, NewTestResult(name), rnd)
    IN  IF e.err # NoError
        THEN [result |-> NilResult, err |-> e.err, enc |-> e.locals, dec |-> NoDec]
        ELSE LET x == DecryptHalf(Executor(name), d, e.result[1], e.locals, FALSE)
             IN  [result |-> x.result, err |-> x.err, enc |-> e.locals, dec |-> x.locals]

\* len(result.Encrypted) as the test reads it (-1: no result)
EncryptedLen(r) == IF r.result = NilResult THEN -1 ELSE Len(r.result[1].Encrypted)

\* ------------------------------------------------------- settings store
\* The process-wide viper instance: the values of the two keys the package
\* uses ("" when a key is not set) and whether a configuration file is in
\* use (viper.WriteConfig has a file to write to).
KeyPostQuantum == "crypto.default_post_quantum"
KeyClassic == "crypto.default_classic"

ErrInvalidAlgorithm == "invalid algorithm"
ErrConfigFileNotFound == "Config File Not Found"

NoSettings(configFile) ==
    [values |-> [k \in {KeyPostQuantum, KeyClassic} |-> ""], configFile |-> configFile]

viperSet(v, key, value) == [v EXCEPT !.values[key] = value]

viperGetString(v, key) == v.values[key]

viperWriteConfig(v) == IF v.configFile THEN NoError ELSE ErrConfigFileNotFound

NamesOf(list) == {list[i].Name : i \in DOMAIN list}

\* variant: the name is looked up in both lists
validAlgorithmAnyList(algorithm, postQuantum) ==
    algorithm \in NamesOf(ListPostQuantumAlgorithms) \cup NamesOf(ListClassicAlgorithms)

\* the validation loop of SetDefaultAlgorithm: the list of the flag only
validAlgorithm(algorithm, postQuantum) ==
    IF postQuantum
    THEN algorithm \in NamesOf(ListPostQuantumAlgorithms)
    ELSE algorithm \in NamesOf(ListClassicAlgorithms)

\* variant: the name is stored under the key of the other category
RunSetDefaultAlgorithmWrongKey(v, algorithm, postQuantum) ==
    IF ~validAlgorithm(algorithm, postQuantum)
    THEN [settings |-> v, err |-> ErrInvalidAlgorithm]
    ELSE LET w == IF postQuantum
                  THEN viperSet(v, KeyClassic, algorithm)
                  ELSE viperSet(v, KeyPostQuantum, algorithm)
         IN  [settings |-> w, err |-> viperWriteConfig(w)]

\* SetDefaultAlgorithm: the settings after the call and the error returned
RunSetDefaultAlgorithm(v, algorithm, postQuantum) ==
    IF ~validAlgorithm(algorithm, postQuantum)
    THEN [settings |-> v, err |-> ErrInvalidAlgorithm]
    ELSE LET w == IF postQuantum
                  THEN viperSet(v, KeyPostQuantum, algorithm)
                  ELSE viperSet(v, KeyClassic, algorithm)
         IN  [settings |-> w, err |-> viperWriteConfig(w)]

\* variant: the stored preference is not consulted
RunGetDefaultAlgorithmHardCoded(v, postQuantum) ==
    IF postQuantum THEN "kyber768" ELSE "aes256gcm"

\* GetDefaultAlgorithm: the stored value, or the hard-coded default
RunGetDefaultAlgorithm(v, postQuantum) ==
    IF postQuantum
    THEN LET algorithm == viperGetString(v, KeyPostQuantum)
         IN  IF algorithm = "" THEN "kyber768" ELSE algorithm
    ELSE LET algorithm == viperGetString(v, KeyClassic)
         IN  IF algorithm = "" THEN "aes256gcm" ELSE algorithm

\* variant: the list is a package-level slice handed to every caller
SharedSlice(earlier, literal) == IF earlier = <<>> THEN literal ELSE earlier

\* return []Algorithm{...}: every call builds a new slice from the literal
\* (earlier: the slice handed out by the previous call, <<>> if none)
NewSlice(earlier, literal) == literal

\* what a call that has not been made returns
NoCall ==
    [op |-> "", algorithm |-> "", postQuantum |-> FALSE, ret |-> "", err |-> NoError,
     earlier |-> <<>>]

NoHeld == [classic |-> <<>>, postQuantum |-> <<>>]

\* -------------------------------------------------------------- tunnels
\* pkg/tunnel: the stored tunnel configurations (one JSON file per name)
\* and the GRE interfaces of the host.  A *Tunnel is <<>> or <<t>>.  A
\* time stamp is a reading of the clock, a number that the JSON file gives
\* back as written.  Writing a configuration file may fail (the file is
\* then as it was); removing one succeeds.
StatusDown == "DOWN"
StatusUp == "UP"

TunnelNames == {"alpha"}

\* the names a caller may ask for: "beta" is never created
LookupNames == TunnelNames \cup {"beta", ""}

\* the last reading of the clock the model follows
MaxClock == 1

\* the outcomes of the two writes of one Create: which of them succeed
DiskOutcomes == {<<TRUE, TRUE>>, <<TRUE, FALSE>>, <<FALSE, FALSE>>}

ValidIPs == {"192.0.2.1", "192.0.2.2"}

\* the configurations a caller may pass to Create: every field filled in,
\* and one field of such a configuration left empty
FilledConfigs ==
    [Name : TunnelNames,
     LocalIP : {"192.0.2.1", "not-an-ip"},
     RemoteIP : {"192.0.2.2"},
     LocalSubnet : {"10.0.1.0/24"},
     RemoteSubnet : {"10.0.2.0/24"},
     Encryption : {"aes256gcm", "kyber768", "rot13"},
     PostQuantum : BOOLEAN]

ConfigFields ==
    {"Name", "LocalIP", "RemoteIP", "LocalSubnet", "RemoteSubnet", "Encryption"}

ConfigSet ==
    FilledConfigs
        \cup {[c EXCEPT ![f] = ""] : c \in {x \in FilledConfigs : x.Encryption = "aes256gcm"},
                                     f \in ConfigFields}

ErrNameEmpty == "tunnel name cannot be empty"
ErrLocalIPEmpty == "local IP cannot be empty"
ErrRemoteIPEmpty == "remote IP cannot be empty"
ErrLocalSubnetEmpty == "local subnet cannot be empty"
ErrRemoteSubnetEmpty == "remote subnet cannot be empty"
ErrInvalidEncryption == "invalid encryption algorithm"
ErrAlreadyExists == "tunnel already exists"
ErrNotFound == "tunnel not found"
ErrActive == "tunnel is active, stop it first or use --force"
ErrRootCreate == "must run as root to create GRE tunnel interfaces"
ErrRootDelete == "must run as root to delete GRE tunnel interfaces"
ErrInvalidIP == "invalid LocalIP or RemoteIP for tunnel"
ErrLinkAdd == "failed to create GRE tunnel interface"
ErrWriteConfig == "failed to write tunnel configuration"

NoTunnels == [n \in TunnelNames |-> <<>>]

validateConfig(config) ==
    IF config.Name = "" THEN ErrNameEmpty
    ELSE IF config.LocalIP = "" THEN ErrLocalIPEmpty
    ELSE IF config.RemoteIP = "" THEN ErrRemoteIPEmpty
    ELSE IF config.LocalSubnet = "" THEN ErrLocalSubnetEmpty
    ELSE IF config.RemoteSubnet = "" THEN ErrRemoteSubnetEmpty
    ELSE IF config.Encryption = "" THEN NoError
    ELSE IF \/ config.Encryption \in NamesOf(ListClassicAlgorithms)
            \/ (config.PostQuantum /\ config.Encryption \in NamesOf(ListPostQuantumAlgorithms))
         THEN NoError
         ELSE ErrInvalidEncryption

\* loadTunnel and getTunnelStatus: the stored tunnel, its status as stored
Get(files, name) == IF name \in DOMAIN files THEN files[name] ELSE <<>>

\* v.WriteConfigAs(configFile): the file is replaced, or the error
saveTunnel(files, tunnel, writable) ==
    IF writable
    THEN [files |-> [files EXCEPT ![tunnel.Name] = <<tunnel>>], err |-> NoError]
    ELSE [files |-> files, err |-> ErrWriteConfig]

deleteTunnelConfig(files, name) ==
    IF name \in DOMAIN files THEN [files EXCEPT ![name] = <<>>] ELSE files

\* netlink.LinkAdd and LinkSetUp of gre-<name>: the interfaces afterwards
\* and the error
createGRETunnelInterface(ifaces, tunnel, root) ==
    IF ~root THEN [links |-> ifaces, err |-> ErrRootCreate]
    ELSE IF tunnel.LocalIP \notin ValidIPs \/ tunnel.RemoteIP \notin ValidIPs
    THEN [links |-> ifaces, err |-> ErrInvalidIP]
    ELSE IF tunnel.Name \in ifaces
    THEN [links |-> ifaces, err |-> ErrLinkAdd]
    ELSE [links |-> ifaces \cup {tunnel.Name}, err |-> NoError]

\* netlink.LinkByName and LinkDel of gre-<name>
deleteGRETunnelInterface(ifaces, tunnel, root) ==
    IF ~root THEN [links |-> ifaces, err |-> ErrRootDelete]
    ELSE [links |-> ifaces \ {tunnel.Name}, err |-> NoError]

TunnelReturn(files, ifaces, ret, err, stopped) ==
    [tunnels |-> files, links |-> ifaces, ret |-> ret, err |-> err, stopped |-> stopped]

\* the Tunnel object Create builds from the configuration
NewTunnel(config, now) ==
    [Name |-> config.Name, LocalIP |-> config.LocalIP,
     RemoteIP |-> config.RemoteIP, LocalSubnet |-> config.LocalSubnet,
     RemoteSubnet |-> config.RemoteSubnet,
     Encryption |-> config.Encryption, PostQuantum |-> config.PostQuantum,
     Status |-> StatusDown, CreatedAt |-> now, UpdatedAt |-> now]

\* Create from the first saveTunnel on: the tunnel is new
CreateNew(files, ifaces, config, root, now, disk) ==
    LET tunnel == NewTunnel(config, now)
        saved == saveTunnel(files, tunnel, disk[1])
    IN  IF saved.err # NoError
        THEN TunnelReturn(saved.files, ifaces, <<>>, saved.err, FALSE)
        ELSE
        LET gre == createGRETunnelInterface(ifaces, tunnel, root)
            up == [tunnel EXCEPT !.Status = StatusUp]
            final == saveTunnel(saved.files, up, disk[2])
        IN  IF gre.err # NoError
            THEN TunnelReturn(deleteTunnelConfig(saved.files, config.Name), gre.links,
                              <<>>, gre.err, FALSE)
            ELSE IF final.err # NoError
            THEN TunnelReturn(final.files, gre.links, <<>>, final.err, FALSE)
            ELSE TunnelReturn(final.files, gre.links, <<up>>, NoError, FALSE)

\* variant: the existence check is missing
RunCreateOverwrites(files, ifaces, config, root, now, disk) ==
    IF validateConfig(config) # NoError
    THEN TunnelReturn(files, ifaces, <<>>, validateConfig(config), FALSE)
    ELSE CreateNew(files, ifaces, config, root, now, disk)

\* Create(config); now: time.Now(), disk: the outcomes of its writes
RunCreate(files, ifaces, config, root, now, disk) ==
    IF validateConfig(config) # NoError
    THEN TunnelReturn(files, ifaces, <<>>, validateConfig(config), FALSE)
    ELSE IF Get(files, config.Name) # <<>>
    THEN TunnelReturn(files, ifaces, <<>>, ErrAlreadyExists, FALSE)
    ELSE CreateNew(files, ifaces, config, root, now, disk)

\* Start and Stop after the status test: the new status is saved
SetStatus(files, ifaces, tunnel, status, now, writable) ==
    LET saved == saveTunnel(files, [tunnel EXCEPT !.Status = status, !.UpdatedAt = now],
                            writable)
    IN  TunnelReturn(saved.files, ifaces, <<>>, saved.err, status = StatusDown)

\* variant: a tunnel that is UP already is saved again
RunStartAlwaysSaves(files, ifaces, name, now, writable) ==
    IF Get(files, name) = <<>>
    THEN TunnelReturn(files, ifaces, <<>>, ErrNotFound, FALSE)
    ELSE SetStatus(files, ifaces, Get(files, name)[1], StatusUp, now, writable)

\* Start(name)
RunStart(files, ifaces, name, now, writable) ==
    IF Get(files, name) = <<>>
    THEN TunnelReturn(files, ifaces, <<>>, ErrNotFound, FALSE)
    ELSE LET tunnel == Get(files, name)[1]
         IN  IF tunnel.Status = StatusUp
             THEN TunnelReturn(files, ifaces, <<>>, NoError, FALSE)
             ELSE SetStatus(files, ifaces, tunnel, StatusUp, now, writable)

\* Stop(name); stopped: stopTunnel was called
RunStop(files, ifaces, name, now, writable) ==
    IF Get(files, name) = <<>>
    THEN TunnelReturn(files, ifaces, <<>>, ErrNotFound, FALSE)
    ELSE LET tunnel == Get(files, name)[1]
         IN  IF tunnel.Status = StatusDown
             THEN TunnelReturn(files, ifaces, <<>>, NoError, FALSE)
             ELSE SetStatus(files, ifaces, tunnel, StatusDown, now, writable)

\* variant: an active tunnel is stopped and deleted without --force too
RunDeleteNoActiveCheck(files, ifaces, name, force, root) ==
    IF Get(files, name) = <<>>
    THEN IF force
         THEN TunnelReturn(deleteTunnelConfig(files, name), ifaces, <<>>, NoError, FALSE)
         ELSE TunnelReturn(files, ifaces, <<>>, ErrNotFound, FALSE)
    ELSE
    LET tunnel == Get(files, name)[1]
        stopped == tunnel.Status = StatusUp
        gre == deleteGRETunnelInterface(ifaces, tunnel, root)
    IN  IF gre.err # NoError /\ ~force
        THEN TunnelReturn(files, gre.links, <<>>, gre.err, stopped)
        ELSE TunnelReturn(deleteTunnelConfig(files, name), gre.links, <<>>, NoError,
                          stopped)

\* Delete(name, force); stopped: stopTunnel was called
RunDelete(files, ifaces, name, force, root) ==
    IF Get(files, name) = <<>>
    THEN IF force
         THEN TunnelReturn(deleteTunnelConfig(files, name), ifaces, <<>>, NoError, FALSE)
         ELSE TunnelReturn(files, ifaces, <<>>, ErrNotFound, FALSE)
    ELSE
    LET tunnel == Get(files, name)[1]
    IN  IF tunnel.Status = StatusUp /\ ~force
        THEN TunnelReturn(files, ifaces, <<>>, ErrActive, FALSE)
        ELSE
        LET stopped == tunnel.Status = StatusUp
            gre == deleteGRETunnelInterface(ifaces, tunnel, root)
        IN  IF gre.err # NoError /\ ~force
            THEN TunnelReturn(files, gre.links, <<>>, gre.err, stopped)
            ELSE TunnelReturn(deleteTunnelConfig(files, name), gre.links, <<>>, NoError,
                              stopped)

\* the processes that run Create at the same time (two invocations of the
\* command line)
Procs == {1, 2}

\* the configurations they pass: the complete ones with usable addresses
RaceConfigs == {c \in FilledConfigs : c.LocalIP \in ValidIPs}

\* a process that has not called Create yet: its position in Create, the
\* argument, its user, the tunnel object, and what Create returned
NoProc ==
    [pc |-> "idle", config |-> <<>>, root |-> FALSE, tunnel |-> <<>>, ret |-> <<>>,
     err |-> NoError]

\* config: the argument of Create, <<>> for the other operations
NoTunnelCall ==
    [op |-> "", name |-> "", force |-> FALSE, config |-> <<>>, ret |-> <<>>,
     err |-> NoError, stopped |-> FALSE]

\* ================================================================= state
VARIABLES
    data,       \* the plaintext the caller passes
    algorithm,  \* the name passed to the call in progress / last call
    phase,      \* "idle", "encrypted" (buffer built, self-test pending), "returned"
    result,     \* the *TestResult: <<>> or <<r>>
    err,        \* the error returned
    enc,        \* locals of the encryption half
    dec,        \* locals of the decryption half
    lens,       \* the ciphertext lengths TestHybridKyberAES compares, -1 if not run
    tamper,     \* what was done to the buffer before the self-test
    settings,   \* the viper settings store
    call,       \* the settings or registry call made last and what it returned
    held,       \* the slices the list functions handed out, as their callers left them
    tunnels,    \* the stored tunnel configuration of each name: <<>> or <<t>>
    links,      \* the names whose GRE interface exists
    tcall,      \* the tunnel operation made last and what it returned
    clock,      \* the last reading of time.Now() by a tunnel operation
    procs       \* the processes inside Create, step by step

settingsVars == <<settings, call, held>>

tunnelVars == <<tunnels, links, tcall, clock, procs>>

cryptoVars == <<data, algorithm, phase, result, err, enc, dec, lens, tamper>>

vars == <<data, algorithm, phase, result, err, enc, dec, lens, tamper, settingsVars,
          tunnelVars>>

NoTamper == [kind |-> "none", pos |-> 0]

NoLens == [hybrid |-> -1, aes |-> -1, kyber |-> -1]

Init ==
    /\ data = <<>>
    /\ algorithm = ""
    /\ phase = "idle"
    /\ result = NilResult
    /\ err = NoError
    /\ enc = NoEnc
    /\ dec = NoDec
    /\ lens = NoLens
    /\ tamper = NoTamper
    /\ settings \in {NoSettings(configFile) : configFile \in BOOLEAN}
    /\ call = NoCall
    /\ held = NoHeld
    /\ tunnels = NoTunnels
    /\ links = {}
    /\ tcall = NoTunnelCall
    /\ clock = 0
    /\ procs = [p \in Procs |-> NoProc]

\* a caller invokes TestAlgorithm(name, d) and keeps what it returns
TestAlgorithm(name) ==
    /\ phase = "idle"
    /\ \E d \in DataSet :
      \E rnd \in Randomness(Executor(name)) :
        \E r \in {RunTestAlgorithm(name, d, rnd)} :
          /\ data' = d
          /\ algorithm' = name
          /\ phase' = "returned"
          /\ result' = r.result
          /\ err' = r.err
          /\ enc' = r.enc
          /\ dec' = r.dec
          /\ UNCHANGED <<settingsVars, tunnelVars, lens, tamper>>

\* the test TestHybridKyberAES: the hybrid, then aes256gcm and kyber768 on
\* the same data, and the three ciphertext lengths it compares
TestHybridKyberAES ==
    /\ phase = "idle"
    /\ \E d \in DataSet :
      \E aesLen \in {EncryptedLen(RunTestAlgorithm("aes256gcm", d, a)) :
                         a \in Randomness(Executor("aes256gcm"))} :
        \E kyberLen \in {EncryptedLen(RunTestAlgorithm("kyber768", d, k)) :
                             k \in Randomness(Executor("kyber768"))} :
          \E rnd \in Randomness(Executor("hybrid-kyber768-aes256gcm")) :
            \E r \in {RunTestAlgorithm("hybrid-kyber768-aes256gcm", d, rnd)} :
              /\ data' = d
              /\ algorithm' = "hybrid-kyber768-aes256gcm"
              /\ phase' = "returned"
              /\ result' = r.result
              /\ err' = r.err
              /\ enc' = r.enc
              /\ dec' = r.dec
              /\ lens' = [hybrid |-> EncryptedLen(r), aes |-> aesLen, kyber |-> kyberLen]
              /\ UNCHANGED <<settingsVars, tunnelVars, tamper>>

\* the caller is done with what the call returned
Discard ==
    /\ phase = "returned"
    /\ phase' = "idle"
    /\ algorithm' = ""
    /\ result' = NilResult
    /\ err' = NoError
    /\ enc' = NoEnc
    /\ dec' = NoDec
    /\ lens' = NoLens
    /\ call' = NoCall
    /\ data' = <<>>
    /\ UNCHANGED <<tamper, settings, held, tunnelVars>>

Next ==
    \/ \E name \in AlgorithmNames : TestAlgorithm(name)
    \/ TestHybridKyberAES
    \/ Discard

Spec == Init /\ [][Next]_vars

\* ------------------------------------------- the self-test on any buffer
\* The decryption half of each executor, applied to a buffer that differs
\* from the one the encryption half built: one byte changed, the buffer
\* cut short, or the sealed payload replaced by the sealed key.

\* the encryption half of TestAlgorithm(name, data) has run
Encrypt(name) ==
    /\ phase = "idle"
    /\ \E d \in DataSet :
         \E rnd \in Randomness(Executor(name)) :
           \E e \in {EncryptHalf(Executor(name), d, NewTestResult(name), rnd)} :
             /\ e.err = NoError
             /\ data' = d
             /\ algorithm' = name
             /\ phase' = "encrypted"
             /\ result' = e.result
             /\ enc' = e.locals
             /\ UNCHANGED <<settingsVars, tunnelVars, err, dec, lens, tamper>>

\* byte i of the serialized buffer is changed to another value
FlipByte ==
    /\ phase = "encrypted"
    /\ tamper = NoTamper
    /\ \E i \in 1 .. Len(result[1].Encrypted) :
         \E d \in 1 .. (ByteMod - 1) :
           /\ result' = <<[result[1] EXCEPT
                             !.Encrypted[i] = (result[1].Encrypted[i] + d) % ByteMod]>>
           /\ tamper' = [kind |-> "flip", pos |-> i]
    /\ UNCHANGED <<settingsVars, tunnelVars, data, algorithm, phase, err, enc, dec, lens>>

\* the serialized buffer is cut to its first n bytes
Truncate ==
    /\ phase = "encrypted"
    /\ tamper = NoTamper
    /\ \E n \in 0 .. (Len(result[1].Encrypted) - 1) :
         /\ result' = <<[result[1] EXCEPT !.Encrypted = Take(result[1].Encrypted, n)]>>
         /\ tamper' = [kind |-> "truncate", pos |-> n]
    /\ UNCHANGED <<settingsVars, tunnelVars, data, algorithm, phase, err, enc, dec, lens>>

\* hybrid: the data nonce and data ciphertext are replaced by the key nonce
\* and the wrapped key (both sealed under the same 32 bytes)
Splice ==
    /\ phase = "encrypted"
    /\ tamper = NoTamper
    /\ algorithm = "hybrid-kyber768-aes256gcm"
    /\ result' = <<[result[1] EXCEPT !.Encrypted =
                      enc.ciphertext \o enc.aesKeyNonce \o enc.encryptedAesKey
                          \o enc.aesKeyNonce \o enc.encryptedAesKey]>>
    /\ tamper' = [kind |-> "splice", pos |-> 0]
    /\ UNCHANGED <<settingsVars, tunnelVars, data, algorithm, phase, err, enc, dec, lens>>

\* the decryption half runs on the buffer and the call returns
Decrypt ==
    /\ phase = "encrypted"
    /\ \E explicit \in BOOLEAN :
         \E x \in {DecryptHalf(Executor(algorithm), data, result[1], enc, explicit)} :
           /\ result' = x.result
           /\ err' = x.err
           /\ dec' = x.locals
    /\ phase' = "returned"
    /\ UNCHANGED <<settingsVars, tunnelVars, data, algorithm, enc, lens, tamper>>

NextTamper ==
    \/ \E name \in RegisteredNames : Encrypt(name)
    \/ FlipByte
    \/ Truncate
    \/ Splice
    \/ Decrypt

SpecTamper == Init /\ [][NextTamper]_vars

\* ------------------------------------------- the settings and the lists
\* SetDefaultAlgorithm(algorithm, postQuantum)
SetDefaultAlgorithm(name, postQuantum) ==
    /\ phase = "idle"
    /\ \E r \in {RunSetDefaultAlgorithm(settings, name, postQuantum)} :
         /\ settings' = r.settings
         /\ call' = [op |-> "SetDefaultAlgorithm", algorithm |-> name,
                     postQuantum |-> postQuantum, ret |-> "", err |-> r.err,
                     earlier |-> <<>>]
    /\ phase' = "returned"
    /\ UNCHANGED <<tunnelVars, data, algorithm, result, err, enc, dec, lens, tamper, held>>

\* variant: the default handed out is also stored
GetDefaultAlgorithmStoring(postQuantum) ==
    /\ phase = "idle"
    /\ call' = [op |-> "GetDefaultAlgorithm", algorithm |-> "",
                postQuantum |-> postQuantum,
                ret |-> RunGetDefaultAlgorithm(settings, postQuantum), err |-> NoError,
                earlier |-> <<>>]
    /\ settings' = viperSet(settings,
                            IF postQuantum THEN KeyPostQuantum ELSE KeyClassic,
                            RunGetDefaultAlgorithm(settings, postQuantum))
    /\ phase' = "returned"
    /\ UNCHANGED <<tunnelVars, data, algorithm, result, err, enc, dec, lens, tamper, held>>

\* GetDefaultAlgorithm(postQuantum)
GetDefaultAlgorithm(postQuantum) ==
    /\ phase = "idle"
    /\ call' = [op |-> "GetDefaultAlgorithm", algorithm |-> "",
                postQuantum |-> postQuantum,
                ret |-> RunGetDefaultAlgorithm(settings, postQuantum), err |-> NoError,
                earlier |-> <<>>]
    /\ phase' = "returned"
    /\ UNCHANGED <<tunnelVars, data, algorithm, result, err, enc, dec, lens, tamper, settings, held>>

\* ListClassicAlgorithms()
CallListClassicAlgorithms ==
    /\ phase = "idle"
    /\ \E list \in {NewSlice(held.classic, ListClassicAlgorithms)} :
         /\ call' = [op |-> "ListClassicAlgorithms", algorithm |-> "",
                     postQuantum |-> FALSE, ret |-> list, err |-> NoError,
                     earlier |-> held.classic]
         /\ held' = [held EXCEPT !.classic = list]
    /\ phase' = "returned"
    /\ UNCHANGED <<tunnelVars, data, algorithm, result, err, enc, dec, lens, tamper, settings>>

\* ListPostQuantumAlgorithms()
CallListPostQuantumAlgorithms ==
    /\ phase = "idle"
    /\ \E list \in {NewSlice(held.postQuantum, ListPostQuantumAlgorithms)} :
         /\ call' = [op |-> "ListPostQuantumAlgorithms", algorithm |-> "",
                     postQuantum |-> TRUE, ret |-> list, err |-> NoError,
                     earlier |-> held.postQuantum]
         /\ held' = [held EXCEPT !.postQuantum = list]
    /\ phase' = "returned"
    /\ UNCHANGED <<tunnelVars, data, algorithm, result, err, enc, dec, lens, tamper, settings>>

\* a caller overwrites an element of a slice it was handed
CallerEdits ==
    /\ \E k \in {"classic", "postQuantum"} :
         \E i \in DOMAIN held[k] :
           \E flag \in BOOLEAN :
             held' = [held EXCEPT ![k][i] = [Name |-> "edited", PostQuantum |-> flag]]
    /\ UNCHANGED <<tunnelVars, data, algorithm, phase, result, err, enc, dec, lens,
                   tamper, settings, call>>

NextSettings ==
    \/ \E name \in AlgorithmNames : \E postQuantum \in BOOLEAN :
          SetDefaultAlgorithm(name, postQuantum)
    \/ \E postQuantum \in BOOLEAN : GetDefaultAlgorithm(postQuantum)
    \/ CallListClassicAlgorithms
    \/ CallListPostQuantumAlgorithms
    \/ \E name \in AlgorithmNames : TestAlgorithm(name)
    \/ Discard

SpecSettings == Init /\ [][NextSettings]_vars

NextRegistry ==
    \/ CallListClassicAlgorithms
    \/ CallListPostQuantumAlgorithms
    \/ CallerEdits
    \/ Discard

SpecRegistry == Init /\ [][NextRegistry]_vars

\* ---------------------------------------------------- tunnel operations
\* root: the effective user of the calling process is root; now: what
\* time.Now() reads in the call, never less than an earlier reading
Create(config, root) ==
    \E now \in clock .. MaxClock : \E disk \in DiskOutcomes :
      \E r \in {RunCreate(tunnels, links, config, root, now, disk)} :
        /\ tunnels' = r.tunnels
        /\ links' = r.links
        /\ tcall' = [op |-> "Create", name |-> config.Name, force |-> FALSE,
                     config |-> <<config>>, ret |-> r.ret, err |-> r.err,
                     stopped |-> r.stopped]
        /\ clock' = now
        /\ UNCHANGED <<cryptoVars, settingsVars, procs>>

Start(name) ==
    \E now \in clock .. MaxClock : \E writable \in BOOLEAN :
      \E r \in {RunStart(tunnels, links, name, now, writable)} :
        /\ tunnels' = r.tunnels
        /\ links' = r.links
        /\ tcall' = [op |-> "Start", name |-> name, force |-> FALSE, config |-> <<>>,
                     ret |-> r.ret, err |-> r.err, stopped |-> r.stopped]
        /\ clock' = now
        /\ UNCHANGED <<cryptoVars, settingsVars, procs>>

Stop(name) ==
    \E now \in clock .. MaxClock : \E writable \in BOOLEAN :
      \E r \in {RunStop(tunnels, links, name, now, writable)} :
        /\ tunnels' = r.tunnels
        /\ links' = r.links
        /\ tcall' = [op |-> "Stop", name |-> name, force |-> FALSE, config |-> <<>>,
                     ret |-> r.ret, err |-> r.err, stopped |-> r.stopped]
        /\ clock' = now
        /\ UNCHANGED <<cryptoVars, settingsVars, procs>>

Delete(name, force, root) ==
    \E r \in {RunDelete(tunnels, links, name, force, root)} :
      /\ tunnels' = r.tunnels
      /\ links' = r.links
      /\ tcall' = [op |-> "Delete", name |-> name, force |-> force, config |-> <<>>,
                   ret |-> r.ret, err |-> r.err, stopped |-> r.stopped]
      /\ UNCHANGED <<cryptoVars, settingsVars, clock, procs>>

NextTunnel ==
    \/ \E config \in ConfigSet : \E root \in BOOLEAN : Create(config, root)
    \/ \E name \in LookupNames : Start(name)
    \/ \E name \in LookupNames : Stop(name)
    \/ \E name \in LookupNames : \E force, root \in BOOLEAN :
          Delete(name, force, root)

SpecTunnel == Init /\ [][NextTunnel]_vars

\* ------------------------------------------- Create, one step at a time
\* Process p runs Create(config): each action is one access of Create to
\* the configuration directory or to the interfaces of the host, with the
\* local computation that precedes it.  Nothing in Create locks either.
\* validateConfig, then Get: the existence check
CreateCheck(p, config, root) ==
    /\ procs[p].pc = "idle"
    /\ \E now \in clock .. MaxClock :
         /\ clock' = now
         /\ procs' = [procs EXCEPT ![p] =
               IF validateConfig(config) # NoError
               THEN [NoProc EXCEPT !.pc = "returned", !.config = <<config>>,
                                   !.root = root, !.err = validateConfig(config)]
               ELSE IF Get(tunnels, config.Name) # <<>>
               THEN [NoProc EXCEPT !.pc = "returned", !.config = <<config>>,
                                   !.root = root, !.err = ErrAlreadyExists]
               ELSE [NoProc EXCEPT !.pc = "save", !.config = <<config>>, !.root = root,
                                   !.tunnel = <<NewTunnel(config, now)>>]]
    /\ UNCHANGED <<cryptoVars, settingsVars, tunnels, links, tcall>>

\* saveTunnel(tunnel) with status DOWN
CreateSave(p) ==
    /\ procs[p].pc = "save"
    /\ \E writable \in BOOLEAN :
        \E saved \in {saveTunnel(tunnels, procs[p].tunnel[1], writable)} :
          /\ tunnels' = saved.files
          /\ procs' = [procs EXCEPT ![p] =
                IF saved.err # NoError
                THEN [@ EXCEPT !.pc = "returned", !.err = saved.err]
                ELSE [@ EXCEPT !.pc = "interface"]]
    /\ UNCHANGED <<cryptoVars, settingsVars, links, tcall, clock>>

\* createGRETunnelInterface(tunnel)
CreateInterface(p) ==
    /\ procs[p].pc = "interface"
    /\ \E gre \in {createGRETunnelInterface(links, procs[p].tunnel[1], procs[p].root)} :
          /\ links' = gre.links
          /\ procs' = [procs EXCEPT ![p] =
                IF gre.err # NoError
                THEN [@ EXCEPT !.pc = "rollback", !.err = gre.err]
                ELSE [@ EXCEPT !.pc = "saveUp"]]
    /\ UNCHANGED <<cryptoVars, settingsVars, tunnels, tcall, clock>>

\* _ = deleteTunnelConfig(config.Name); return nil, err
CreateRollback(p) ==
    /\ procs[p].pc = "rollback"
    /\ tunnels' = deleteTunnelConfig(tunnels, procs[p].config[1].Name)
    /\ procs' = [procs EXCEPT ![p].pc = "returned"]
    /\ UNCHANGED <<cryptoVars, settingsVars, links, tcall, clock>>

\* tunnel.Status = StatusUp; saveTunnel(tunnel); return
CreateSaveUp(p) ==
    /\ procs[p].pc = "saveUp"
    /\ \E writable \in BOOLEAN :
        \E up \in {[procs[p].tunnel[1] EXCEPT !.Status = StatusUp]} :
        \E saved \in {saveTunnel(tunnels, up, writable)} :
          /\ tunnels' = saved.files
          /\ procs' = [procs EXCEPT ![p] =
                IF saved.err # NoError
                THEN [@ EXCEPT !.pc = "returned", !.tunnel = <<up>>, !.err = saved.err]
                ELSE [@ EXCEPT !.pc = "returned", !.tunnel = <<up>>, !.ret = <<up>>]]
    /\ UNCHANGED <<cryptoVars, settingsVars, links, tcall, clock>>

NextRace ==
    \/ \E p \in Procs : \E config \in RaceConfigs : \E root \in BOOLEAN :
          CreateCheck(p, config, root)
    \/ \E p \in Procs : CreateSave(p)
    \/ \E p \in Procs : CreateInterface(p)
    \/ \E p \in Procs : CreateRollback(p)
    \/ \E p \in Procs : CreateSaveUp(p)

SpecRace == Init /\ [][NextRace]_vars

\* ================================================================ claims
Returned == phase = "returned"

HasResult == result # NilResult

HybridName == "hybrid-kyber768-aes256gcm"

\* a soft failure: a result with DecryptionSuccessful = false and no error
SoftFailure == HasResult /\ ~result[1].DecryptionSuccessful /\ err = NoError

\* C1: for every registered algorithm name and every plaintext,
\* TestAlgorithm returns no error and a result with DecryptionSuccessful =
\* true: the plaintext recovered from the ciphertext it just produced is the
\* input.
RoundTrip ==
    (Returned /\ algorithm \in {"aes256gcm", "chacha20poly1305", "kyber768", "kyber1024",
                                "hybrid-kyber768-aes256gcm"})
        => /\ err = NoError
           /\ HasResult
           /\ result[1].DecryptionSuccessful
           /\ dec.plaintext = data

RoundTripWitness ==
    /\ Returned
    /\ algorithm = HybridName
    /\ Len(data) = MaxDataLen
    /\ enc.aesKey # enc.sharedSecret
    /\ HasResult
    /\ result[1].DecryptionSuccessful

\* C2: for a name the dispatcher does not handle, TestAlgorithm returns the
\* unsupported-algorithm error and a nil result, whatever the data.
UnsupportedIsError ==
    (Returned /\ algorithm \notin {"aes256gcm", "chacha20poly1305", "kyber768", "kyber1024",
                                   "hybrid-kyber768-aes256gcm"})
        => (err = ErrUnsupported /\ result = NilResult)

UnsupportedWitness ==
    /\ Returned
    /\ algorithm = "unsupported-algorithm"
    /\ Len(data) > 0
    /\ err = ErrUnsupported

\* C3: for a fixed plaintext the hybrid ciphertext is strictly longer than
\* the kyber768 ciphertext and strictly longer than the aes256gcm
\* ciphertext.
HybridLonger ==
    lens # NoLens => (lens.hybrid > lens.kyber /\ lens.hybrid > lens.aes
                        /\ lens.kyber >= 0 /\ lens.aes >= 0)

HybridLongerWitness ==
    /\ lens # NoLens
    /\ Len(data) > 0
    /\ lens.hybrid > 0

\* the length the layout gives for a plaintext of l bytes
ExpectedLen(name, l) ==
    CASE name \in {"aes256gcm", "chacha20poly1305"} -> NonceSize + l + TagSize
      [] name = "kyber768" -> Kyber768CiphertextSize + NonceSize + l + TagSize
      [] name = "kyber1024" -> Kyber1024CiphertextSize + NonceSize + l + TagSize
      [] name = HybridName ->
            Kyber768CiphertextSize + NonceSize + (KeySize + TagSize) + NonceSize + l + TagSize

\* C4: the length of result.Encrypted depends only on the plaintext length
\* and the scheme constants, whatever keys and nonces were drawn: N+L+T,
\* K+N+L+T and K+N+(S+T)+N+L+T.
LengthDeterministic ==
    (Returned /\ HasResult) => Len(result[1].Encrypted) = ExpectedLen(algorithm, Len(data))

LengthDeterministicWitness ==
    /\ Returned
    /\ HasResult
    /\ algorithm = "kyber1024"
    /\ Len(data) = 1
    /\ enc.nonce \notin NotDrawn(NonceSize)

\* C5: the hybrid executor writes kemCiphertext, keyNonce, wrappedKey,
\* dataNonce, dataCiphertext in this order, with sizes K, N, S+T, N, rest,
\* and the decryption half recovers each field as written.
HybridLayout ==
    (Returned /\ algorithm = HybridName /\ HasResult) =>
        /\ result[1].Encrypted =
              enc.ciphertext \o enc.aesKeyNonce \o enc.encryptedAesKey \o enc.nonce
                  \o enc.encryptedData
        /\ Len(enc.ciphertext) = Kyber768CiphertextSize
        /\ Len(enc.aesKeyNonce) = NonceSize
        /\ Len(enc.encryptedAesKey) = KeySize + TagSize
        /\ Len(enc.nonce) = NonceSize
        /\ dec.kyberCiphertext = enc.ciphertext
        /\ dec.aesKeyNonceDecrypt = enc.aesKeyNonce
        /\ dec.encryptedAesKeyDecrypt = enc.encryptedAesKey
        /\ dec.nonceDecrypt = enc.nonce
        /\ dec.ciphertextDecrypt = enc.encryptedData

HybridLayoutWitness ==
    /\ Returned
    /\ algorithm = HybridName
    /\ HasResult
    /\ enc.aesKeyNonce # enc.nonce
    /\ Len(dec.ciphertextDecrypt) > TagSize

\* C6: the KEM-only executor seals the plaintext under the encapsulated
\* shared secret itself, writes kemCiphertext, nonce, ciphertext-with-tag,
\* and the decryption half takes the first CiphertextSize() bytes as the KEM
\* ciphertext and only the remainder as the symmetric layer.
KyberLayout ==
    (Returned /\ algorithm \in {"kyber768", "kyber1024"} /\ HasResult) =>
        /\ enc.sealed = {Sealing(enc.sharedSecret, enc.nonce, data)}
        /\ enc.encryptedData = Seal(<<>>, enc.sharedSecret, enc.nonce, data)
        /\ result[1].Encrypted = enc.ciphertext \o enc.nonce \o enc.encryptedData
        /\ Len(enc.ciphertext) = CiphertextSize(algorithm)
        /\ dec.kyberCiphertext = enc.ciphertext
        /\ dec.nonceDecrypt \o dec.ciphertextDecrypt = enc.nonce \o enc.encryptedData
        /\ dec.nonceDecrypt = enc.nonce

KyberLayoutWitness ==
    /\ Returned
    /\ algorithm = "kyber768"
    /\ HasResult
    /\ Len(data) > 0
    /\ enc.ciphertext # enc.nonce
    /\ dec.cause = "none"

\* C7: a cryptographic failure of the self-test (authentication failure at
\* an Open, decapsulation failure, recovered plaintext different from the
\* input) gives a non-nil result with DecryptionSuccessful = false and a nil
\* error.
CryptoFailureIsSoft ==
    (Returned /\ dec.cause \in {"open", "unwrap", "decapsulate", "mismatch"}) => SoftFailure

CryptoFailureWitness ==
    /\ Returned
    /\ dec.cause = "decapsulate"
    /\ SoftFailure

\* C8: a failed length check on the serialized buffer aborts with a non-nil
\* error and a nil result.
FramingFailureIsFatal ==
    (Returned /\ dec.cause = "short") => (err \in FramingErrors /\ result = NilResult)

FramingFailureWitness ==
    /\ Returned
    /\ algorithm = HybridName
    /\ dec.cause = "short"
    /\ err = ErrTooShortForKey

\* the sum of all fixed-size fields of a scheme, the tag of each sealed part
\* included
MinWellFormed(name) == ExpectedLen(name, 0)

\* the sum of the fixed-size fields in front of the payload ciphertext
FixedFields(name) == ExpectedLen(name, 0) - TagSize

Truncated == Returned /\ tamper.kind = "truncate"

\* C9 as stated: a buffer shorter than the minimum well-formed size of its
\* scheme (every tag included) gives the framing error, never a soft
\* failure.
ShortBufferIsFatal ==
    (Truncated /\ tamper.pos < MinWellFormed(algorithm)) => err \in FramingErrors

\* C9 amended: a produced buffer cut below the fixed-size fields in front of
\* the payload ciphertext gives the framing error and no result; cut
\* anywhere from there on (inside the payload ciphertext or its tag) it
\* gives a soft failure.
TruncationOutcome ==
    Truncated =>
        IF tamper.pos < FixedFields(algorithm)
        THEN err \in FramingErrors /\ result = NilResult
        ELSE SoftFailure

TruncationWitness ==
    /\ Truncated
    /\ algorithm = HybridName
    /\ tamper.pos = FixedFields(algorithm) - 1
    /\ err = ErrTooShortForNonce

\* the bytes in front of the payload ciphertext: KEM ciphertext, nonces and
\* wrapped key
HeaderRegion(name) == 1 .. FixedFields(name)

\* C10: one changed byte in the KEM ciphertext, a nonce or the wrapped key
\* of a produced buffer makes the self-test report a soft failure: neither
\* success nor an error.
HeaderTamperIsSoft ==
    (Returned /\ tamper.kind = "flip" /\ tamper.pos \in HeaderRegion(algorithm)) => SoftFailure

HeaderTamperWitness ==
    /\ Returned
    /\ tamper.kind = "flip"
    /\ algorithm = HybridName
    /\ tamper.pos > Kyber768CiphertextSize + NonceSize
    /\ tamper.pos <= Kyber768CiphertextSize + NonceSize + KeySize + TagSize
    /\ dec.cause = "unwrap"
    /\ SoftFailure

\* C11: the payload key of a hybrid run depends on the independently
\* generated symmetric key as well as on the shared secret: a second hybrid
\* run with the same shared secret and a different symmetric key uses a
\* different payload key.
PayloadKeyDependsOnAesKey ==
    (Returned /\ algorithm = HybridName /\ HasResult) =>
        \A other \in RandomBytes(32) :
            other # enc.aesKey =>
                Take(HybridKey(enc.sharedSecret, other), 32) # enc.key

\* C12: the hybrid payload key is the first 32 bytes of the shared secret
\* followed by the independent symmetric key, the independent key is sealed
\* under the shared secret alone, and the decryption side rebuilds the same
\* payload key from the decapsulated secret and the unwrapped key.
PayloadKeyDerivation ==
    (Returned /\ algorithm = HybridName /\ HasResult) =>
        /\ enc.key = Take(enc.sharedSecret \o enc.aesKey, 32)
        /\ Sealing(enc.key, enc.nonce, data) \in enc.sealed
        /\ Sealing(enc.sharedSecret, enc.aesKeyNonce, enc.aesKey) \in enc.sealed
        /\ enc.encryptedAesKey = Seal(<<>>, enc.sharedSecret, enc.aesKeyNonce, enc.aesKey)
        /\ dec.decapsulatedSecret = enc.sharedSecret
        /\ dec.decryptedAesKey = enc.aesKey
        /\ Take(dec.hybridKeyDecrypt, 32) = enc.key

PayloadKeyWitness ==
    /\ Returned /\ algorithm = HybridName /\ HasResult
    /\ result[1].DecryptionSuccessful
    /\ enc.aesKey # enc.sharedSecret
    /\ Take(dec.hybridKeyDecrypt, 32) = enc.key

\* C13: no AEAD key is used with the same nonce for two seal operations:
\* within one hybrid invocation the seal of the payload and the seal of the
\* symmetric key never use the same (key, nonce) pair.
SealsUseDistinctKeyNonce ==
    (Returned /\ algorithm = HybridName /\ HasResult) =>
        <<enc.key, enc.nonce>> # <<enc.sharedSecret, enc.aesKeyNonce>>

\* the names of one category, as the specification lists them
CategoryNames(postQuantum) ==
    IF postQuantum
    THEN {"kyber768", "kyber1024", "hybrid-kyber768-aes256gcm"}
    ELSE {"aes256gcm", "chacha20poly1305"}

CategoryKey(postQuantum) == IF postQuantum THEN KeyPostQuantum ELSE KeyClassic

CategoryDefault(postQuantum) == IF postQuantum THEN "kyber768" ELSE "aes256gcm"

\* C14: SetDefaultAlgorithm(name, postQuantum) stores the name when it is in
\* the list of the flag's category, under that category's key only; for any
\* other name, a name of the other category included, it returns the
\* 'invalid algorithm' error and neither stored default changes.
SetDefaultValidates ==
    [][(phase = "idle" /\ call'.op = "SetDefaultAlgorithm") =>
          IF call'.algorithm \in CategoryNames(call'.postQuantum)
          THEN /\ call'.err # ErrInvalidAlgorithm
               /\ settings'.values =
                      [settings.values EXCEPT ![CategoryKey(call'.postQuantum)] =
                                                  call'.algorithm]
          ELSE /\ call'.err = ErrInvalidAlgorithm
               /\ settings' = settings]_vars

SetDefaultWitness ==
    /\ call.op = "SetDefaultAlgorithm"
    /\ call.algorithm \in CategoryNames(~call.postQuantum)
    /\ call.err = ErrInvalidAlgorithm
    /\ settings.values[KeyClassic] # ""

\* C15: GetDefaultAlgorithm(postQuantum) returns the stored preference of the
\* category when it is set and non-empty, and otherwise 'kyber768' for
\* post-quantum and 'aes256gcm' for classic.
GetDefaultReturnsStored ==
    call.op = "GetDefaultAlgorithm" =>
        call.ret = IF settings.values[CategoryKey(call.postQuantum)] # ""
                   THEN settings.values[CategoryKey(call.postQuantum)]
                   ELSE CategoryDefault(call.postQuantum)

GetDefaultWitness ==
    /\ call.op = "GetDefaultAlgorithm"
    /\ settings.values[CategoryKey(call.postQuantum)] # ""
    /\ call.ret # CategoryDefault(call.postQuantum)
    /\ settings.values[CategoryKey(~call.postQuantum)] = ""

DurationsNonNegative ==
    (Returned /\ HasResult) =>
        /\ result[1].KeyGenTime >= 0
        /\ result[1].EncryptTime >= 0
        /\ result[1].DecryptTime >= 0
        /\ enc.tick > 0 =>
              /\ result[1].KeyGenTime > 0
              /\ result[1].EncryptTime > 0
              /\ result[1].DecryptTime > 0

DurationsWitness ==
    /\ Returned /\ HasResult
    /\ enc.tick > 0
    /\ result[1].KeyGenTime > 0
    /\ result[1].EncryptTime > 0
    /\ result[1].DecryptTime > 0

\* the list holds every name of the category with the category's flag, and
\* nothing else
ListsCategory(list, postQuantum) ==
    /\ \A n \in CategoryNames(postQuantum) :
          \E i \in DOMAIN list : list[i] = [Name |-> n, PostQuantum |-> postQuantum]
    /\ \A i \in DOMAIN list : list[i].Name \in CategoryNames(postQuantum)
    /\ \A i, j \in DOMAIN list : list[i].Name = list[j].Name => i = j

\* C18: the classic list holds aes256gcm and chacha20poly1305 with
\* PostQuantum = false, the post-quantum list holds kyber768, kyber1024 and
\* hybrid-kyber768-aes256gcm with PostQuantum = true, no name occurs twice
\* across the two lists, and a call returns these contents whatever earlier
\* callers did to a list they were handed.
ListsAreFixed ==
    /\ call.op = "ListClassicAlgorithms" =>
          /\ ListsCategory(call.ret, FALSE)
          /\ NamesOf(call.ret)
                 \cap NamesOf(NewSlice(held.postQuantum, ListPostQuantumAlgorithms)) = {}
    /\ call.op = "ListPostQuantumAlgorithms" =>
          /\ ListsCategory(call.ret, TRUE)
          /\ NamesOf(call.ret)
                 \cap NamesOf(NewSlice(held.classic, ListClassicAlgorithms)) = {}

ListsWitness ==
    /\ call.op = "ListPostQuantumAlgorithms"
    /\ \E i \in DOMAIN call.earlier : call.earlier[i].Name = "edited"
    /\ ListsCategory(call.ret, TRUE)

\* C19: TestAlgorithm, the two list operations and GetDefaultAlgorithm never
\* write the settings store: the stored preferences are the same after the
\* call as before it, and only SetDefaultAlgorithm changes them.
OnlySetDefaultWrites ==
    [][settings' # settings => call'.op = "SetDefaultAlgorithm"]_vars

OnlySetDefaultWitness ==
    /\ Returned
    /\ algorithm = HybridName
    /\ HasResult
    /\ settings.values[KeyClassic] = "chacha20poly1305"
    /\ settings.values[KeyPostQuantum] = "kyber1024"

StepsOf(name) ==
    CASE name = "aes256gcm" -> StepsAES256GCM
      [] name = "chacha20poly1305" -> StepsChaCha20Poly1305
      [] name \in {"kyber768", "kyber1024"} -> StepsKyber
      [] name = HybridName -> StepsHybridKyberAES

\* the steps that produce the cryptographic content of the serialized
\* ciphertext: the encapsulation and the sealing of the caller's plaintext
ContentSteps == {"Encapsulate", "Seal"}

\* the steps of the decryption self-test
DecryptionSteps ==
    {"Slice", "Decapsulate", "NewCipherUnwrap", "OpenKey", "CombineKeyDecrypt",
     "NewCipherDecrypt", "Open"}

\* step i of the call runs while the timer of the span is running
Covers(span, i) == span[1] < i /\ i <= span[2]

\* C22: for each executor the encryption timer is started before and
\* stopped after every step that produces the cryptographic content of the
\* serialized ciphertext (the encapsulation and the sealing of the caller's
\* plaintext), and the decryption timer runs over decryption steps only.
TimersSpanPhases ==
    (Returned /\ algorithm \in RegisteredNames /\ HasResult) =>
        /\ enc.encrypt # <<>>
        /\ \A i \in DOMAIN StepsOf(algorithm) :
              StepsOf(algorithm)[i] \in ContentSteps => Covers(enc.encrypt, i)
        /\ dec.decrypt # <<>> =>
              \A i \in DOMAIN StepsOf(algorithm) :
                  Covers(dec.decrypt, i) => StepsOf(algorithm)[i] \in DecryptionSteps

\* C25: inside TestAlgorithm the framing-error branches are not reached:
\* for a registered name and every plaintext, the empty one included, the
\* buffer the executor serialized holds every fixed-size field, so the call
\* never returns a 'too short' error.
FramingBranchesUnreachable ==
    (Returned /\ algorithm \in RegisteredNames) =>
        /\ err \notin FramingErrors
        /\ HasResult
        /\ Len(result[1].Encrypted) >= MinWellFormed(algorithm)

FramingBranchesWitness ==
    /\ Returned
    /\ algorithm = HybridName
    /\ data = <<>>
    /\ HasResult
    /\ Len(result[1].Encrypted) = MinWellFormed(HybridName)
    /\ err = NoError

\* how often a name occurs in the two lists of the registry
Occurrences(name) ==
    Cardinality({i \in DOMAIN ListClassicAlgorithms : ListClassicAlgorithms[i].Name = name})
        + Cardinality({i \in DOMAIN ListPostQuantumAlgorithms :
                           ListPostQuantumAlgorithms[i].Name = name})

\* C26: the registry and the dispatcher agree: a name of either list is
\* never answered with the unsupported-algorithm error, and a name that
\* TestAlgorithm accepts occurs exactly once in the two lists.
RegistryMatchesDispatcher ==
    Returned =>
        /\ Occurrences(algorithm) > 0 => err # ErrUnsupported
        /\ err # ErrUnsupported => Occurrences(algorithm) = 1

RegistryMatchesWitness ==
    /\ Returned
    /\ Occurrences(algorithm) = 1
    /\ algorithm = "kyber1024"
    /\ err = NoError
    /\ HasResult

\* C27: when SetDefaultAlgorithm returns an error, for an invalid name or
\* for a configuration that cannot be written, GetDefaultAlgorithm(true)
\* and GetDefaultAlgorithm(false) return afterwards what they returned
\* before the call.
ErrorLeavesDefaults ==
    [][(phase = "idle" /\ call'.op = "SetDefaultAlgorithm" /\ call'.err # NoError) =>
          \A postQuantum \in BOOLEAN :
              RunGetDefaultAlgorithm(settings', postQuantum)
                  = RunGetDefaultAlgorithm(settings, postQuantum)]_vars

\* C28: after a successful SetDefaultAlgorithm(name, pq),
\* GetDefaultAlgorithm(pq) returns name and GetDefaultAlgorithm(not pq)
\* returns what it returned before; and, the preferences being unset at
\* the start, GetDefaultAlgorithm(pq) always returns a name of the list of
\* category pq, whatever calls of SetDefaultAlgorithm were made.
DefaultsStayInCategory ==
    /\ [](\A postQuantum \in BOOLEAN :
             RunGetDefaultAlgorithm(settings, postQuantum)
                 \in NamesOf(IF postQuantum THEN ListPostQuantumAlgorithms
                                            ELSE ListClassicAlgorithms))
    /\ [][(phase = "idle" /\ call'.op = "SetDefaultAlgorithm" /\ call'.err = NoError) =>
             /\ RunGetDefaultAlgorithm(settings', call'.postQuantum) = call'.algorithm
             /\ RunGetDefaultAlgorithm(settings', ~call'.postQuantum)
                    = RunGetDefaultAlgorithm(settings, ~call'.postQuantum)]_vars

DefaultsStayWitness ==
    /\ call.op = "SetDefaultAlgorithm"
    /\ call.err = NoError
    /\ call.postQuantum
    /\ call.algorithm = "kyber1024"
    /\ RunGetDefaultAlgorithm(settings, TRUE) = "kyber1024"
    /\ RunGetDefaultAlgorithm(settings, FALSE) = "chacha20poly1305"

\* the errors of validateConfig
ValidationErrors ==
    {ErrNameEmpty, ErrLocalIPEmpty, ErrRemoteIPEmpty, ErrLocalSubnetEmpty,
     ErrRemoteSubnetEmpty, ErrInvalidEncryption}

\* a Create call ends in the step: its name has a stored configuration
CreateOfStored ==
    /\ tcall'.op = "Create"
    /\ tcall'.name \in TunnelNames
    /\ tunnels[tcall'.name] # <<>>

\* C21 as stated: Create(config) for a name that has a stored configuration
\* returns the 'already exists' error and leaves the stored configuration,
\* status and time stamps included, as it was.
CreateExistingIsRejected ==
    [][CreateOfStored =>
          /\ tcall'.err = ErrAlreadyExists
          /\ tcall'.ret = <<>>
          /\ tunnels' = tunnels
          /\ links' = links]_vars

\* C21, amended: the stored configuration is left as it was, and the error
\* is 'already exists' when the configuration passed is valid; an invalid
\* configuration is rejected by validateConfig first, with its own error.
CreateExistingLeavesStored ==
    [][CreateOfStored =>
          /\ tcall'.err = IF validateConfig(tcall'.config[1]) = NoError
                          THEN ErrAlreadyExists
                          ELSE validateConfig(tcall'.config[1])
          /\ tcall'.err # NoError
          /\ tcall'.ret = <<>>
          /\ tunnels' = tunnels
          /\ links' = links]_vars

CreateExistingWitness ==
    /\ tcall.op = "Create"
    /\ tcall.err = ErrAlreadyExists
    /\ tunnels[tcall.name] # <<>>
    /\ tunnels[tcall.name][1].Status = StatusUp
    /\ tunnels[tcall.name][1].Encryption # tcall.config[1].Encryption
    /\ tunnels[tcall.name][1].UpdatedAt < clock

\* C23: a tunnel created by Create from a configuration whose Encryption
\* field is empty is stored and returned with Encryption = "aes256gcm".
CreateAppliesDefaultEncryption ==
    (tcall.op = "Create" /\ tcall.err = NoError /\ tcall.config[1].Encryption = "") =>
        /\ tcall.ret # <<>>
        /\ tcall.ret[1].Encryption = "aes256gcm"
        /\ tunnels[tcall.name] # <<>>
        /\ tunnels[tcall.name][1].Encryption = "aes256gcm"

\* a Start or Stop call ends in the step: its tunnel is stored with status
StatusCall(op, status) ==
    /\ tcall'.op = op
    /\ tcall'.name \in TunnelNames
    /\ tunnels[tcall'.name] # <<>>
    /\ tunnels[tcall'.name][1].Status = status

\* C24: Start of a tunnel that is UP and Stop of a tunnel that is DOWN
\* return nil and change nothing, the stored status and UpdatedAt
\* included; a successful Start of a DOWN tunnel leaves the stored status
\* UP and a successful Stop of an UP tunnel leaves it DOWN.
StartStopIdempotent ==
    [][/\ (StatusCall("Start", StatusUp) \/ StatusCall("Stop", StatusDown)) =>
              /\ tcall'.err = NoError
              /\ tunnels' = tunnels
              /\ links' = links
       /\ (StatusCall("Start", StatusDown) /\ tcall'.err = NoError) =>
              tunnels'[tcall'.name][1].Status = StatusUp
       /\ (StatusCall("Stop", StatusUp) /\ tcall'.err = NoError) =>
              tunnels'[tcall'.name][1].Status = StatusDown]_vars

StartStopWitness ==
    /\ tcall.op = "Start"
    /\ tcall.err = NoError
    /\ tunnels[tcall.name] # <<>>
    /\ tunnels[tcall.name][1].Status = StatusUp
    /\ tunnels[tcall.name][1].UpdatedAt < clock

\* C29: Create is all or nothing: when it returns an error after the
\* validation (a failed save, interface creation or final save), neither a
\* stored configuration nor an interface of the name remains; when it
\* succeeds, the stored configuration exists with status UP.
CreateAllOrNothing ==
    (tcall.op = "Create" /\ tcall.name \in TunnelNames) =>
        IF tcall.err = NoError
        THEN /\ tunnels[tcall.name] # <<>>
             /\ tunnels[tcall.name][1].Status = StatusUp
        ELSE tcall.err \notin ValidationErrors \cup {ErrAlreadyExists} =>
                 /\ tunnels[tcall.name] = <<>>
                 /\ tcall.name \notin links

\* process p has returned from Create
HasReturned(p) == procs[p].pc = "returned"

\* Create of process p has returned the tunnel and no error
Succeeded(p) == HasReturned(p) /\ procs[p].err = NoError /\ procs[p].ret # <<>>

\* process p has passed the existence check and has saved its configuration
HasSaved(p) == procs[p].pc \in {"interface", "rollback", "saveUp"}

\* C30: when two Create calls for the same name run at the same time, at
\* most one succeeds, the configuration stored once both have returned is
\* that of the successful call, and the existence check followed by the
\* save does not pass in both callers.
ConcurrentCreateExclusive ==
    /\ ~(Succeeded(1) /\ Succeeded(2))
    /\ \A p \in Procs :
          (Succeeded(p) /\ \A q \in Procs : HasReturned(q)) =>
              tunnels[procs[p].config[1].Name] = procs[p].ret
    /\ ~(/\ HasSaved(1)
          /\ HasSaved(2)
          /\ procs[1].config[1].Name = procs[2].config[1].Name)

====
